---- MODULE Spec2Model ----
(***************************************************************************)
(* Ownership transfer across the AOTInductor handle boundary               *)
(* (torch/csrc/inductor/aoti_torch/tensor_converter.cpp).                  *)
(*                                                                         *)
(* A caller owns arrays of native values (at::Tensor) and arrays of        *)
(* handles (AtenTensorHandle).  unsafe_alloc_new_handles_from_tensors      *)
(* boxes the values of an array, alloc_tensors_by_stealing_from_handles    *)
(* moves the values out of the boxes again.  Calls run on several threads  *)
(* and interleave statement by statement.                                  *)
(***************************************************************************)
EXTENDS Integers, Sequences, FiniteSets

(* ------------------------------ bounds --------------------------------- *)

\* largest array the caller builds
MaxLen == 2
\* heap addresses available to operator new
NumAddr == 3

Threads == {1, 2}
\* each thread of the caller has an array of values and an array of handles of
\* its own: array t belongs to thread t
Arrays == Threads
Addr == 1 .. NumAddr
\* the tensor values the caller builds its arrays from
Values == {1, 2}

(* --------------------------- representation ---------------------------- *)

\* the payload of a moved-from at::Tensor (an undefined tensor)
MovedFrom == 0
Payloads == Values \cup {MovedFrom}

\* an AtenTensorHandle and an at::Tensor* are two types over the same bits
NullHandle == <<"handle", 0>>
NullPointer == <<"pointer", 0>>
Bits(x) == x[2]

\* a conversion that adjusts the address, as a cast across a base class does
HandleToShiftedPointer(handle) == <<"pointer", (Bits(handle) + 1) % (NumAddr + 1)>>

tensor_handle_to_tensor_pointer(handle) == <<"pointer", Bits(handle)>>

tensor_pointer_to_tensor_handle(tensor) == <<"handle", Bits(tensor)>>

VARIABLES
    tens,     \* tens[a]: the caller's array a of native values
    hnd,      \* hnd[a]: the caller's array a of handles
    live,     \* addresses of the Boxed Values allocated and not freed
    box,      \* box[p]: the payload of the at::Tensor at address p
    call,     \* call[t]: the frame of the call thread t runs
    argv,     \* history: the call's first `length` input slots at call time
    argp,     \* history: the payloads behind argv at call time (stealing)
    touched,  \* history: addresses the call allocated or moved out of
    ub,       \* history: the call dereferenced a null handle
    origin,   \* history: the values the handles of hnd[a] were allocated from
    misuse    \* history: some call began in breach of its input constraint

vars == <<tens, hnd, live, box, call, argv, argp, touched, ub, origin, misuse>>

\* the values the caller starts with: array 1 alternates 2, 1, 2, ... so that
\* every position differs from its neighbours, array 2 repeats one value
Input(a) == [k \in 1 .. MaxLen |-> IF a = 1 THEN 1 + (k % 2) ELSE 1]

Idle == [pc |-> "idle", op |-> "none", arr |-> 0, length |-> 0, i |-> 0,
         result |-> <<>>]

Init ==
    /\ tens = [a \in Arrays |-> Input(a)]
    /\ hnd = [a \in Arrays |-> <<>>]
    /\ live = {}
    /\ box = [p \in Addr |-> MovedFrom]
    /\ call = [t \in Threads |-> Idle]
    /\ argv = [t \in Threads |-> <<>>]
    /\ argp = [t \in Threads |-> <<>>]
    /\ touched = [t \in Threads |-> <<>>]
    /\ ub = [t \in Threads |-> FALSE]
    /\ origin = [a \in Arrays |-> <<>>]
    /\ misuse = FALSE

(* ------------------------------ helpers -------------------------------- *)

\* some call is using array a (a returned call still holds its result)
Busy(a) == \E t \in Threads : call[t].pc # "idle" /\ call[t].arr = a

NoHandle(a) == \A k \in 1 .. Len(hnd[a]) : hnd[a][k] = NullHandle

NoAllocOn(a) ==
    \A u \in Threads :
        (call[u].pc # "idle" /\ call[u].arr = a) => call[u].op = "steal"

\* the payload a handle stands for (nothing behind the null handle)
Behind(h) == IF h = NullHandle THEN MovedFrom ELSE box[Bits(h)]

Fresh(t) ==
    /\ argv' = [argv EXCEPT ![t] = <<>>]
    /\ argp' = [argp EXCEPT ![t] = <<>>]
    /\ touched' = [touched EXCEPT ![t] = <<>>]
    /\ ub' = [ub EXCEPT ![t] = FALSE]

(* -------------------- the statements of the two loops ------------------ *)

\* a result one element too long
ResultOfLengthPlusOne(length) == [k \in 1 .. length + 1 |-> NullHandle]

\* std::vector<AtenTensorHandle> result(length): length null handles
ResultOfLength(length) == [k \in 1 .. length |-> NullHandle]

\* a loop that stops one element short
LoopRunsShort(i, length) == i + 1 < length

\* i < length, the condition of both for loops (i counts from 0)
LoopRuns(i, length) == i < length

\* an allocator that hands out storage whether or not it is in use
AnyAddresses == Addr

\* operator new returns the address of storage that is not in use
NewAddresses == Addr \ live

\* a copy constructor in place of the move: the source keeps its payload
CopiedOut(slots, k) == slots

\* the source of std::move after the move constructor has run
MovedOut(slots, k) == [slots EXCEPT ![k] = MovedFrom]

\* the handle always written to the first element of the result
StoreHandleFirst(result, k, allocated) ==
    [result EXCEPT ![1] = tensor_pointer_to_tensor_handle(allocated)]

\* result[i] = tensor_pointer_to_tensor_handle(allocated)
StoreHandle(result, k, allocated) ==
    [result EXCEPT ![k] = tensor_pointer_to_tensor_handle(allocated)]

\* the value inserted at the front of the result instead of its back
EmplaceFront(result, payload) == <<payload>> \o result

\* result.emplace_back(std::move(*pointer))
EmplaceBack(result, payload) == Append(result, payload)

\* the slot left as it is
KeptHandle(handles, k) == handles

\* the store running on into the slot after handles[i]
NullOutThrough(handles, k) ==
    [j \in 1 .. Len(handles) |-> IF j \in {k, k + 1} THEN NullHandle ELSE handles[j]]

\* handles[i] = nullptr
NullOut(handles, k) == [handles EXCEPT ![k] = NullHandle]

(* ------------- unsafe_alloc_new_handles_from_tensors ------------------- *)

\* the caller may pass array a with length n: the first n slots hold values,
\* no other call uses the array, and its handle array is free to take the result
AllocCallable(t, a, n) ==
    /\ ~misuse
    /\ call[t].pc = "idle"
    /\ a = t
    /\ ~Busy(a)
    /\ NoHandle(a)
    /\ n \in 0 .. Len(tens[a])
    /\ \A k \in 1 .. n : tens[a][k] # MovedFrom

AllocBegin(t, a, n) ==
    /\ AllocCallable(t, a, n)
    /\ call' = [call EXCEPT ![t] =
                   [pc |-> "alloc", op |-> "alloc", arr |-> a, length |-> n,
                    i |-> 0, result |-> ResultOfLength(n)]]
    /\ argv' = [argv EXCEPT ![t] = SubSeq(tens[a], 1, n)]
    /\ UNCHANGED <<tens, hnd, live, box, argp, touched, ub, origin, misuse>>

\* the vector's own storage cannot be allocated: std::bad_alloc before the loop
AllocResultFail(t, a, n) ==
    /\ AllocCallable(t, a, n)
    /\ n > 0
    /\ call' = [call EXCEPT ![t] =
                   [pc |-> "failed", op |-> "alloc", arr |-> a, length |-> n,
                    i |-> 0, result |-> <<>>]]
    /\ argv' = [argv EXCEPT ![t] = SubSeq(tens[a], 1, n)]
    /\ UNCHANGED <<tens, hnd, live, box, argp, touched, ub, origin, misuse>>

\* one iteration: new at::Tensor(std::move(tensors[i])), result[i] = handle
AllocStep(t) ==
    LET c == call[t]
        a == c.arr
        k == c.i + 1
    IN  /\ c.pc = "alloc"
        /\ LoopRuns(c.i, c.length)
        /\ \E p \in NewAddresses :
              /\ live' = live \cup {p}
              /\ box' = [box EXCEPT ![p] = tens[a][k]]
              /\ tens' = [tens EXCEPT ![a] = MovedOut(tens[a], k)]
              /\ call' = [call EXCEPT
                             ![t].result = StoreHandle(c.result, k, <<"pointer", p>>),
                             ![t].i = k]
              /\ touched' = [touched EXCEPT ![t] = Append(@, p)]
        /\ UNCHANGED <<hnd, argv, argp, ub, origin, misuse>>

\* a failure path that deletes the boxes made so far before it rethrows
AllocFailRollback(t) ==
    LET c == call[t]
        made == {touched[t][k] : k \in 1 .. Len(touched[t])}
    IN  /\ c.pc = "alloc"
        /\ LoopRuns(c.i, c.length)
        /\ call' = [call EXCEPT ![t].pc = "failed", ![t].result = <<>>]
        /\ live' = live \ made
        /\ box' = [p \in Addr |-> IF p \in made THEN MovedFrom ELSE box[p]]
        /\ UNCHANGED <<tens, hnd, argv, argp, touched, ub, origin, misuse>>

\* the value moved into a temporary before the allocation that then fails
AllocFailAfterMove(t) ==
    LET c == call[t]
    IN  /\ c.pc = "alloc"
        /\ LoopRuns(c.i, c.length)
        /\ call' = [call EXCEPT ![t].pc = "failed", ![t].result = <<>>]
        /\ tens' = [tens EXCEPT ![c.arr] = MovedOut(tens[c.arr], c.i + 1)]
        /\ UNCHANGED <<hnd, live, box, argv, argp, touched, ub, origin, misuse>>

\* operator new throws std::bad_alloc: the exception unwinds the call, the
\* result vector is destroyed, the boxes made so far stay allocated
AllocFail(t) ==
    LET c == call[t]
    IN  /\ c.pc = "alloc"
        /\ LoopRuns(c.i, c.length)
        /\ call' = [call EXCEPT ![t].pc = "failed", ![t].result = <<>>]
        /\ UNCHANGED <<tens, hnd, live, box, argv, argp, touched, ub, origin, misuse>>

\* a return that waits until no other call is running
AllocReturnWaits(t) ==
    LET c == call[t]
    IN  /\ c.pc = "alloc"
        /\ ~LoopRuns(c.i, c.length)
        /\ \A u \in Threads \ {t} : call[u].pc \notin {"alloc", "steal", "null"}
        /\ call' = [call EXCEPT ![t].pc = "returned"]
        /\ UNCHANGED <<tens, hnd, live, box, argv, argp, touched, ub, origin, misuse>>

\* return result
AllocReturn(t) ==
    LET c == call[t]
    IN  /\ c.pc = "alloc"
        /\ ~LoopRuns(c.i, c.length)
        /\ call' = [call EXCEPT ![t].pc = "returned"]
        /\ UNCHANGED <<tens, hnd, live, box, argv, argp, touched, ub, origin, misuse>>

(* ------------- alloc_tensors_by_stealing_from_handles ------------------ *)

\* the call honours its input constraint: every handle is non-null and no
\* other call is working on the array
StealCorrect(a, n) ==
    /\ ~Busy(a)
    /\ \A k \in 1 .. n : hnd[a][k] # NullHandle

\* nothing has been done with array b yet
Pristine(b) == ~Busy(b) /\ hnd[b] = <<>> /\ tens[b] = Input(b)

\* A thread steals from its own array, with handles that may be null already
\* (a second reclamation), or from the other thread's array while a call is
\* working on it.  A call in breach of the input constraint is followed
\* while the other array is still untouched.
StealCallable(t, a, n) ==
    /\ ~misuse
    /\ call[t].pc = "idle"
    /\ NoAllocOn(a)
    /\ (a = t \/ Busy(a))
    /\ n \in 0 .. Len(hnd[a])
    /\ (StealCorrect(a, n) \/ \A b \in Arrays \ {a} : Pristine(b))

\* std::vector<at::Tensor> result; result.reserve(length)
ReclaimBegin(t, a, n) ==
    /\ StealCallable(t, a, n)
    /\ call' = [call EXCEPT ![t] =
                   [pc |-> "steal", op |-> "steal", arr |-> a, length |-> n,
                    i |-> 0, result |-> <<>>]]
    /\ argv' = [argv EXCEPT ![t] = SubSeq(hnd[a], 1, n)]
    /\ argp' = [argp EXCEPT ![t] = [k \in 1 .. n |-> Behind(hnd[a][k])]]
    /\ misuse' = (misuse \/ ~StealCorrect(a, n))
    /\ UNCHANGED <<tens, hnd, live, box, touched, ub, origin>>

\* reserve cannot allocate the storage: std::bad_alloc before the loop
ReclaimReserveFail(t, a, n) ==
    /\ StealCallable(t, a, n)
    /\ n > 0
    /\ call' = [call EXCEPT ![t] =
                   [pc |-> "failed", op |-> "steal", arr |-> a, length |-> n,
                    i |-> 0, result |-> <<>>]]
    /\ argv' = [argv EXCEPT ![t] = SubSeq(hnd[a], 1, n)]
    /\ argp' = [argp EXCEPT ![t] = [k \in 1 .. n |-> Behind(hnd[a][k])]]
    /\ misuse' = (misuse \/ ~StealCorrect(a, n))
    /\ UNCHANGED <<tens, hnd, live, box, touched, ub, origin>>

\* the same statement reading the array from its far end
ReclaimMoveBackwards(t) ==
    LET c == call[t]
        a == c.arr
        k == c.length - c.i
        pointer == tensor_handle_to_tensor_pointer(hnd[a][k])
    IN  /\ c.pc = "steal"
        /\ LoopRuns(c.i, c.length)
        /\ pointer # NullPointer
        /\ call' = [call EXCEPT
                       ![t].result = EmplaceBack(c.result, box[Bits(pointer)]),
                       ![t].pc = "null"]
        /\ box' = MovedOut(box, Bits(pointer))
        /\ touched' = [touched EXCEPT ![t] = Append(@, Bits(pointer))]
        /\ UNCHANGED <<tens, hnd, live, argv, argp, ub, origin, misuse>>

\* result.emplace_back(std::move(*tensor_handle_to_tensor_pointer(handles[i])))
ReclaimMove(t) ==
    LET c == call[t]
        a == c.arr
        k == c.i + 1
        pointer == tensor_handle_to_tensor_pointer(hnd[a][k])
    IN  /\ c.pc = "steal"
        /\ LoopRuns(c.i, c.length)
        /\ pointer # NullPointer
        /\ call' = [call EXCEPT
                       ![t].result = EmplaceBack(c.result, box[Bits(pointer)]),
                       ![t].pc = "null"]
        /\ box' = MovedOut(box, Bits(pointer))
        /\ touched' = [touched EXCEPT ![t] = Append(@, Bits(pointer))]
        /\ UNCHANGED <<tens, hnd, live, argv, argp, ub, origin, misuse>>

\* the same statement while another call is between its move out of the same
\* box and its next statement: the two move constructors race on the box, and
\* this call may read the payload the other one took
ReclaimMoveRaced(t) ==
    LET c == call[t]
        a == c.arr
        k == c.i + 1
        pointer == tensor_handle_to_tensor_pointer(hnd[a][k])
    IN  /\ c.pc = "steal"
        /\ LoopRuns(c.i, c.length)
        /\ pointer # NullPointer
        /\ \E u \in Threads \ {t} :
              /\ call[u].pc = "null"
              /\ call[u].arr = a
              /\ call[u].i = c.i
              /\ call' = [call EXCEPT
                             ![t].result = EmplaceBack(c.result,
                                 call[u].result[Len(call[u].result)]),
                             ![t].pc = "null"]
        /\ box' = MovedOut(box, Bits(pointer))
        /\ touched' = [touched EXCEPT ![t] = Append(@, Bits(pointer))]
        /\ UNCHANGED <<tens, hnd, live, argv, argp, ub, origin, misuse>>

\* the same statement on a null handle: the move constructor reads through
\* the null pointer, and the process stops there
ReclaimNullDerefCrash(t) ==
    LET c == call[t]
        a == c.arr
        k == c.i + 1
        pointer == tensor_handle_to_tensor_pointer(hnd[a][k])
    IN  /\ c.pc = "steal"
        /\ LoopRuns(c.i, c.length)
        /\ pointer = NullPointer
        /\ call' = [call EXCEPT ![t].pc = "crashed"]
        /\ ub' = [ub EXCEPT ![t] = TRUE]
        /\ UNCHANGED <<tens, hnd, live, box, argv, argp, touched, origin, misuse>>

\* a null handle checked for and answered with an empty tensor
ReclaimNullSkipped(t, garbage) ==
    LET c == call[t]
        a == c.arr
        k == c.i + 1
        pointer == tensor_handle_to_tensor_pointer(hnd[a][k])
    IN  /\ c.pc = "steal"
        /\ LoopRuns(c.i, c.length)
        /\ pointer = NullPointer
        /\ call' = [call EXCEPT
                       ![t].result = EmplaceBack(c.result, MovedFrom),
                       ![t].pc = "null"]
        /\ UNCHANGED <<tens, hnd, live, box, argv, argp, touched, ub, origin, misuse>>

\* or the read yields whatever lies there and the call goes on
ReclaimNullDerefGarbage(t, garbage) ==
    LET c == call[t]
        a == c.arr
        k == c.i + 1
        pointer == tensor_handle_to_tensor_pointer(hnd[a][k])
    IN  /\ c.pc = "steal"
        /\ LoopRuns(c.i, c.length)
        /\ pointer = NullPointer
        /\ call' = [call EXCEPT
                       ![t].result = EmplaceBack(c.result, garbage),
                       ![t].pc = "null"]
        /\ ub' = [ub EXCEPT ![t] = TRUE]
        /\ UNCHANGED <<tens, hnd, live, box, argv, argp, touched, origin, misuse>>

\* the store going to slot i of every handle array, not only the one passed
ReclaimNullEverywhere(t) ==
    LET c == call[t]
        k == c.i + 1
    IN  /\ c.pc = "null"
        /\ hnd' = [b \in Arrays |->
                     IF k <= Len(hnd[b]) THEN NullOut(hnd[b], k) ELSE hnd[b]]
        /\ call' = [call EXCEPT ![t].i = k, ![t].pc = "steal"]
        /\ UNCHANGED <<tens, live, box, argv, argp, touched, ub, origin, misuse>>

\* the slot nulled after the box behind it has been deleted
ReclaimNullDeleting(t) ==
    LET c == call[t]
        a == c.arr
        k == c.i + 1
    IN  /\ c.pc = "null"
        /\ hnd' = [hnd EXCEPT ![a] = NullOut(hnd[a], k)]
        /\ live' = live \ {Bits(hnd[a][k])}
        /\ call' = [call EXCEPT ![t].i = k, ![t].pc = "steal"]
        /\ UNCHANGED <<tens, box, argv, argp, touched, ub, origin, misuse>>

\* handles[i] = nullptr; i++
ReclaimNull(t) ==
    LET c == call[t]
        a == c.arr
        k == c.i + 1
    IN  /\ c.pc = "null"
        /\ hnd' = [hnd EXCEPT ![a] = NullOut(hnd[a], k)]
        /\ call' = [call EXCEPT ![t].i = k, ![t].pc = "steal"]
        /\ UNCHANGED <<tens, live, box, argv, argp, touched, ub, origin, misuse>>

ReclaimReturn(t) ==
    LET c == call[t]
    IN  /\ c.pc = "steal"
        /\ ~LoopRuns(c.i, c.length)
        /\ call' = [call EXCEPT ![t].pc = "returned"]
        /\ UNCHANGED <<tens, hnd, live, box, argv, argp, touched, ub, origin, misuse>>

(* ------------------------------ the caller ----------------------------- *)

\* The caller is followed up to its first breach of an input constraint; the
\* calls then in flight run on to their end and the caller does nothing more.

\* the caller keeps the handles it was returned as its handle array
TakeHandles(t) ==
    LET c == call[t]
    IN  /\ ~misuse
        /\ c.pc = "returned"
        /\ c.op = "alloc"
        /\ hnd' = [hnd EXCEPT ![c.arr] = c.result]
        /\ origin' = [origin EXCEPT ![c.arr] = argv[t]]
        /\ call' = [call EXCEPT ![t] = Idle]
        /\ Fresh(t)
        /\ UNCHANGED <<tens, live, box, misuse>>

\* the caller uses up the values it was returned
TakeTensors(t) ==
    LET c == call[t]
    IN  /\ ~misuse
        /\ c.pc = "returned"
        /\ c.op = "steal"
        /\ call' = [call EXCEPT ![t] = Idle]
        /\ Fresh(t)
        /\ UNCHANGED <<tens, hnd, live, box, origin, misuse>>

\* the boundary's deallocation facility, on a handle the caller owns; the
\* caller then forgets the handle
Free(a, k) ==
    /\ ~misuse
    /\ ~Busy(a)
    /\ k \in 1 .. Len(hnd[a])
    /\ hnd[a][k] # NullHandle
    /\ live' = live \ {Bits(hnd[a][k])}
    /\ box' = [box EXCEPT ![Bits(hnd[a][k])] = MovedFrom]
    /\ hnd' = [hnd EXCEPT ![a][k] = NullHandle]
    /\ UNCHANGED <<tens, call, argv, argp, touched, ub, origin, misuse>>

(* ---------------------------- specification ---------------------------- *)

Next ==
    \/ \E t \in Threads, a \in Arrays, n \in 0 .. MaxLen : AllocBegin(t, a, n)
    \/ \E t \in Threads, a \in Arrays, n \in 0 .. MaxLen : AllocResultFail(t, a, n)
    \/ \E t \in Threads : AllocStep(t)
    \/ \E t \in Threads : AllocFail(t)
    \/ \E t \in Threads : AllocReturn(t)
    \/ \E t \in Threads, a \in Arrays, n \in 0 .. MaxLen : ReclaimBegin(t, a, n)
    \/ \E t \in Threads, a \in Arrays, n \in 0 .. MaxLen : ReclaimReserveFail(t, a, n)
    \/ \E t \in Threads : ReclaimMove(t)
    \/ \E t \in Threads : ReclaimMoveRaced(t)
    \/ \E t \in Threads : ReclaimNullDerefCrash(t)
    \/ \E t \in Threads, g \in Payloads : ReclaimNullDerefGarbage(t, g)
    \/ \E t \in Threads : ReclaimNull(t)
    \/ \E t \in Threads : ReclaimReturn(t)
    \/ \E t \in Threads : TakeHandles(t)
    \/ \E t \in Threads : TakeTensors(t)
    \/ \E a \in Arrays, k \in 1 .. MaxLen : Free(a, k)

Spec == Init /\ [][Next]_vars

\* the next statement of the call thread t is running
CallAction(t) ==
    \/ AllocStep(t)
    \/ AllocFail(t)
    \/ AllocReturn(t)
    \/ ReclaimMove(t)
    \/ ReclaimMoveRaced(t)
    \/ ReclaimNullDerefCrash(t)
    \/ \E g \in Payloads : ReclaimNullDerefGarbage(t, g)
    \/ ReclaimNull(t)
    \/ ReclaimReturn(t)

\* a thread inside one of the two functions goes on to its next statement;
\* when the caller makes its calls is up to the caller
FairSpec == Spec /\ \A t \in Threads : WF_vars(CallAction(t))

(* ------------------------ vocabulary of the claims --------------------- *)

Range(s) == {s[k] : k \in 1 .. Len(s)}

Returned(t, op) == call[t].pc = "returned" /\ call[t].op = op

InFlight(t) == call[t].pc \in {"alloc", "steal", "null"}

AllIdle == \A t \in Threads : call[t].pc = "idle"

HandleOf(p) == <<"handle", p>>

\* the handles the caller holds in its arrays
HeldBy(p) == {<<a, k>> \in Arrays \X (1 .. MaxLen) :
                 k <= Len(hnd[a]) /\ hnd[a][k] = HandleOf(p)}

\* the handles an allocating call has written into its result so far
MadeBy(p) == {<<t, k>> \in Threads \X (1 .. MaxLen) :
                 /\ call[t].op = "alloc"
                 /\ call[t].pc \in {"alloc", "returned"}
                 /\ k <= call[t].i
                 /\ call[t].result[k] = HandleOf(p)}

RECURSIVE Sum(_, _)
Sum(f, S) ==
    IF S = {} THEN 0
    ELSE LET x == CHOOSE y \in S : TRUE IN f[x] + Sum(f, S \ {x})

Occurrences(s, v) == Cardinality({k \in 1 .. Len(s) : s[k] = v})

\* in how many places payload v is held: the caller's value slots, the boxes,
\* and the output slots of the stealing calls
Holders(v) ==
    Sum([a \in Arrays |-> Occurrences(tens[a], v)], Arrays)
    + Cardinality({p \in live : box[p] = v})
    + Sum([t \in Threads |->
             IF call[t].op = "steal" THEN Occurrences(call[t].result, v) ELSE 0],
          Threads)

\* thread t takes a step of one of the two functions (not of the caller)
CallStep(t) ==
    /\ call'[t] # call[t]
    /\ call'[t].pc # "idle"

(* -------------------------------- C1 ----------------------------------- *)

\* C1: allocation then reclamation is the identity on the values: when
\* alloc_tensors_by_stealing_from_handles returns from the handles that
\* unsafe_alloc_new_handles_from_tensors made of V, its result has the
\* call's length, holds V position by position, and every slot passed is null.
InverseLaw ==
    \A t \in Threads :
        (Returned(t, "steal") /\ ~misuse) =>
            LET a == call[t].arr
                N == call[t].length
            IN  /\ Len(call[t].result) = N
                /\ \A k \in 1 .. N : call[t].result[k] = origin[a][k]
                /\ \A k \in 1 .. N : hnd[a][k] = NullHandle

\* the whole of array 1 (2, 1, ...) has gone through both calls
InverseLawWitness ==
    \E t \in Threads :
        /\ Returned(t, "steal")
        /\ ~misuse
        /\ call[t].arr = 1
        /\ call[t].length = MaxLen
        /\ call[t].result = Input(1)
        /\ origin[1] = Input(1)

(* -------------------------------- C2 ----------------------------------- *)

\* C2: no leak under correct usage: once every call has returned and the
\* caller has taken its result, every Boxed Value that has not been freed is
\* aliased by a non-null slot of a handle array the caller holds.
NoLeak ==
    (AllIdle /\ ~misuse) => \A p \in live : HeldBy(p) # {}

(* -------------------------------- C3 ----------------------------------- *)

\* C3: single ownership of payloads: no step of either function changes in
\* how many places a value is held; an allocation step moves the payload of
\* input slot i into box i and leaves the slot moved-from, a reclamation step
\* moves the payload of box i into output slot i and leaves the box moved-from.
SingleOwnership ==
    [][\A t \in Threads :
          (CallStep(t) /\ ~misuse') =>
              /\ \A v \in Values : Holders(v)' = Holders(v)
              /\ (call[t].pc = "alloc" /\ call'[t].i = call[t].i + 1) =>
                     LET k == call'[t].i
                         a == call[t].arr
                     IN  /\ box'[Bits(call'[t].result[k])] = tens[a][k]
                         /\ tens'[a][k] = MovedFrom
              /\ (call[t].pc = "steal" /\ call'[t].pc = "null") =>
                     LET k == call[t].i + 1
                         p == Bits(hnd[call[t].arr][k])
                     IN  /\ call'[t].result[k] = box[p]
                         /\ box'[p] = MovedFrom]_vars

\* every value of array 1 has travelled slot -> box -> output slot
SingleOwnershipWitness ==
    \E t \in Threads :
        /\ Returned(t, "steal")
        /\ ~misuse
        /\ call[t].arr = 1
        /\ call[t].length = MaxLen
        /\ \A k \in 1 .. MaxLen :
              /\ tens[1][k] = MovedFrom
              /\ box[touched[t][k]] = MovedFrom
              /\ call[t].result[k] \in Values

(* -------------------------------- C4 ----------------------------------- *)

\* every place that holds a handle: the slots of the caller's handle arrays
\* and the elements an allocating call has written so far
HandlePlaces ==
    {<<"slot", a, k>> : a \in Arrays, k \in 1 .. MaxLen}
    \cup {<<"result", t, k>> : t \in Threads, k \in 1 .. MaxLen}

HandleAt(x) ==
    IF x[1] = "slot"
    THEN IF x[3] <= Len(hnd[x[2]]) THEN hnd[x[2]][x[3]] ELSE NullHandle
    ELSE IF /\ call[x[2]].op = "alloc"
            /\ call[x[2]].pc \in {"alloc", "returned"}
            /\ x[3] <= call[x[2]].i
         THEN call[x[2]].result[x[3]]
         ELSE NullHandle

ExclusiveHandles ==
    ~misuse =>
        /\ \A t \in Threads :
              Returned(t, "alloc") =>
                  /\ Len(call[t].result) = call[t].length
                  /\ \A k \in 1 .. call[t].length : call[t].result[k] # NullHandle
        /\ \A x \in HandlePlaces :
              HandleAt(x) # NullHandle => Bits(HandleAt(x)) \in live
        /\ \A x, y \in HandlePlaces :
              (x # y /\ HandleAt(x) # NullHandle) => HandleAt(x) # HandleAt(y)

\* the handle an allocation step writes is the address of no live Boxed Value
FreshHandle ==
    \A t \in Threads :
        (call[t].pc = "alloc" /\ call'[t].i = call[t].i + 1) =>
            /\ call'[t].result[call'[t].i] # NullHandle
            /\ Bits(call'[t].result[call'[t].i]) \notin live

\* C4: handle exclusivity: a returned allocation holds N non-null handles;
\* every handle it makes differs from the handle of every Boxed Value live at
\* that time; every non-null handle the caller or a running allocation holds
\* aliases a live Boxed Value, and no two of them alias the same one.
HandleExclusivity == []ExclusiveHandles /\ [][FreshHandle]_vars

\* a full allocation has returned while the handles of an earlier one are held
HandleExclusivityWitness ==
    \E t \in Threads, a \in Arrays :
        /\ ~misuse
        /\ Returned(t, "alloc")
        /\ call[t].length = MaxLen
        /\ call[t].arr # a
        /\ \E k \in 1 .. Len(hnd[a]) : hnd[a][k] # NullHandle

(* -------------------------------- C5 ----------------------------------- *)

\* C5: positional correspondence: element k of an allocation's result aliases
\* the box that holds what was in tensors[k]; element k of a reclamation's
\* result is the payload of the box handles[k] aliased when the call began;
\* a returned result has exactly `length` elements.
PositionalCorrespondence ==
    ~misuse =>
        \A t \in Threads :
            /\ (call[t].op = "alloc" /\ call[t].pc \in {"alloc", "returned"}) =>
                   /\ Len(call[t].result) = call[t].length
                   /\ \A k \in 1 .. call[t].i :
                         box[Bits(call[t].result[k])] = argv[t][k]
            /\ Returned(t, "alloc") => call[t].i = call[t].length
            /\ (call[t].op = "steal" /\ call[t].pc \in {"steal", "null", "returned"}) =>
                   \A k \in 1 .. Len(call[t].result) :
                       call[t].result[k] = argp[t][k]
            /\ Returned(t, "steal") => Len(call[t].result) = call[t].length

\* an allocation and a reclamation have both returned, each of >= 1 element
PositionalCorrespondenceWitness ==
    \E t, u \in Threads :
        /\ ~misuse
        /\ Returned(t, "alloc")
        /\ call[t].length >= 1
        /\ Returned(u, "steal")
        /\ call[u].length >= 1

(* -------------------------------- C6 ----------------------------------- *)

\* C6: double reclamation: a reclamation that returns without a contract
\* violation leaves every slot it was passed null, and a reclamation that was
\* passed a null slot never returns without having dereferenced it: of two
\* reclamations of the same handle at most the first returns a defined result.
DoubleReclamation ==
    \A t \in Threads :
        call[t].op = "steal" =>
            /\ (call[t].pc = "returned" /\ ~ub[t]) =>
                   \A k \in 1 .. call[t].length : hnd[call[t].arr][k] = NullHandle
            /\ (call[t].pc = "returned"
                  /\ \E k \in 1 .. call[t].length : argv[t][k] = NullHandle) => ub[t]
            /\ (call[t].pc = "null" /\ argv[t][call[t].i + 1] = NullHandle) => ub[t]

\* a thread reclaims its own array a second time and stops at the null slot
DoubleReclamationWitness ==
    \E t \in Threads :
        /\ call[t].op = "steal"
        /\ call[t].arr = t
        /\ call[t].pc = "crashed"
        /\ argv[t][1] = NullHandle
        /\ ub[t]
        /\ \A u \in Threads \ {t} : call[u].pc = "idle"
        \* no box of the array was freed: the slot is null from a reclamation
        /\ Len(hnd[t]) >= 1
        /\ Cardinality(live) = Len(hnd[t])

(* -------------------------------- C7 ----------------------------------- *)

\* C7: no rollback: when allocation fails at element k the call returns no
\* handles, and the k boxes it made stay allocated with their payloads while
\* no handle to them is held anywhere.
NoRollback ==
    \A t \in Threads :
        (call[t].pc = "failed" /\ call[t].op = "alloc") =>
            /\ call[t].result = <<>>
            /\ Len(touched[t]) = call[t].i
            /\ \A k \in 1 .. call[t].i :
                  /\ touched[t][k] \in live
                  /\ box[touched[t][k]] = argv[t][k]
                  /\ HeldBy(touched[t][k]) = {}
                  /\ MadeBy(touched[t][k]) = {}

\* the failure came after the first box was made
NoRollbackWitness ==
    \E t \in Threads :
        /\ call[t].pc = "failed"
        /\ call[t].op = "alloc"
        /\ call[t].i >= 1
        /\ call[t].i < call[t].length

(* -------------------------------- C8 ----------------------------------- *)

\* what the rest of call t will read
Pending(t) ==
    LET c == call[t]
    IN  IF c.op = "alloc"
        THEN [k \in c.i + 1 .. c.length |-> tens[c.arr][k]]
        ELSE [k \in c.i + 1 .. c.length |->
                 <<hnd[c.arr][k], Behind(hnd[c.arr][k])>>]

\* what call t has written outside its frame
Written(t) ==
    LET c == call[t]
    IN  IF c.op = "alloc"
        THEN [k \in 1 .. c.i |-> <<tens[c.arr][k], box[Bits(c.result[k])]>>]
        ELSE [k \in 1 .. c.i |-> <<hnd[c.arr][k], box[touched[t][k]]>>]

\* the result and the effect of the call run on its own
AsAlone(t) ==
    LET c == call[t]
    IN  /\ Returned(t, "alloc") =>
              /\ Len(c.result) = c.length
              /\ \A k \in 1 .. c.length :
                    /\ c.result[k] # NullHandle
                    /\ box[Bits(c.result[k])] = argv[t][k]
                    /\ tens[c.arr][k] = MovedFrom
                    /\ \A j \in 1 .. c.length : j # k => c.result[j] # c.result[k]
        /\ Returned(t, "steal") =>
              /\ c.result = argp[t]
              /\ \A k \in 1 .. c.length :
                    /\ hnd[c.arr][k] = NullHandle
                    /\ box[Bits(argv[t][k])] = MovedFrom

\* a step that is not of call t leaves alone what t will read and has written
NoInterference ==
    ~misuse' =>
        \A t \in Threads :
            (InFlight(t) /\ call'[t] = call[t]) =>
                /\ Pending(t)' = Pending(t)
                /\ Written(t)' = Written(t)

\* C8: calls on disjoint arrays running concurrently: no step of one call or
\* of the caller changes what another running call reads or has written, and
\* every call returns the result and leaves the effect it has when run alone;
\* handles stay exclusive and every payload keeps a single holder throughout.
ConcurrentDisjoint ==
    /\ [](~misuse => \A t \in Threads : AsAlone(t))
    /\ [][NoInterference]_vars
    /\ []ExclusiveHandles
    /\ SingleOwnership

\* a reclamation and an allocation are both in the middle of their loops
ConcurrentDisjointWitness ==
    \E t, u \in Threads :
        /\ ~misuse
        /\ InFlight(t) /\ call[t].op = "steal"
        /\ InFlight(u) /\ call[u].op = "alloc"
        /\ call[t].i >= 1 /\ call[t].i < call[t].length
        /\ call[u].i >= 1 /\ call[u].i < call[u].length

(* -------------------------------- C9 ----------------------------------- *)

\* C9: two reclamations of the same handle array, each of >= 1 element: as
\* soon as both have passed their first element, one of them has dereferenced
\* a null handle or both have moved the payload out of the same box.
ConcurrentSameHandle ==
    \A t, u \in Threads :
        (/\ t # u
         /\ call[t].op = "steal" /\ call[u].op = "steal"
         /\ call[t].arr = call[u].arr
         /\ Len(call[t].result) >= 1 /\ Len(call[u].result) >= 1) =>
            \/ ub[t]
            \/ ub[u]
            \/ Range(touched[t]) \cap Range(touched[u]) # {}

\* both calls returned and neither met a null slot: both moved from every box
ConcurrentSameHandleWitness ==
    \E t, u \in Threads :
        /\ t # u
        /\ Returned(t, "steal") /\ Returned(u, "steal")
        /\ call[t].arr = call[u].arr
        /\ call[t].length = MaxLen /\ call[u].length = MaxLen
        /\ ~ub[t] /\ ~ub[u]
        /\ touched[t] = touched[u]

(* -------------------------------- C10 ---------------------------------- *)

\* C10: zero-length arrays: a call with length 0 returns an empty sequence,
\* fails in no way, allocates nothing and changes no value slot, no handle
\* slot and no Boxed Value.
ZeroLength ==
    [][\A t \in Threads :
          (CallStep(t) /\ call'[t].length = 0) =>
              /\ call'[t].result = <<>>
              /\ call'[t].pc \in {"alloc", "steal", "returned"}
              /\ touched'[t] = <<>>
              /\ UNCHANGED <<tens, hnd, live, box>>]_vars

\* a zero-length allocation and a zero-length reclamation have returned while
\* values, handles and boxes exist
ZeroLengthWitness ==
    \E t, u \in Threads :
        /\ Returned(t, "alloc") /\ call[t].length = 0
        /\ Returned(u, "steal") /\ call[u].length = 0
        /\ tens[call[t].arr] = Input(call[t].arr)
        /\ \E k \in 1 .. Len(hnd[call[u].arr]) : hnd[call[u].arr][k] # NullHandle
        /\ live # {}

(* -------------------------------- C11 ---------------------------------- *)

\* every bit pattern of the two types: the addresses and null
AllHandles == {<<"handle", b>> : b \in 0 .. NumAddr}
AllPointers == {<<"pointer", b>> : b \in 0 .. NumAddr}

\* the handles and pointers the program holds or has computed in this state
HandlesInUse ==
    UNION {Range(hnd[a]) : a \in Arrays}
    \cup UNION {IF call[t].op = "alloc" THEN Range(call[t].result) ELSE {} :
                   t \in Threads}
    \cup UNION {IF call[t].op = "steal" THEN Range(argv[t]) ELSE {} :
                   t \in Threads}

PointersInUse ==
    {<<"pointer", q>> : q \in live \cup UNION {Range(touched[t]) : t \in Threads}}

\* over every bit pattern: each round trip is the identity, each coercion is
\* one-to-one and lands in the other type, null goes to null
InverseBijections ==
    /\ \A p \in AllPointers :
          /\ tensor_pointer_to_tensor_handle(p) \in AllHandles
          /\ tensor_handle_to_tensor_pointer(tensor_pointer_to_tensor_handle(p)) = p
    /\ \A h \in AllHandles :
          /\ tensor_handle_to_tensor_pointer(h) \in AllPointers
          /\ tensor_pointer_to_tensor_handle(tensor_handle_to_tensor_pointer(h)) = h
    /\ \A g, h \in AllHandles :
          tensor_handle_to_tensor_pointer(g) = tensor_handle_to_tensor_pointer(h)
              => g = h
    /\ \A p, q \in AllPointers :
          tensor_pointer_to_tensor_handle(p) = tensor_pointer_to_tensor_handle(q)
              => p = q
    /\ tensor_handle_to_tensor_pointer(NullHandle) = NullPointer
    /\ tensor_pointer_to_tensor_handle(NullPointer) = NullHandle

AccountingStep ==
    \A t \in Threads :
        CallStep(t) =>
            \* no step of either function frees a Boxed Value
            /\ live \subseteq live'
            \* a reclamation neither creates nor frees one
            /\ call'[t].op = "steal" => live' = live
            \* an allocation creates one per iteration, at an address not in use
            /\ call'[t].op = "alloc" =>
                  /\ Cardinality(live') = Cardinality(live) + (call'[t].i - call[t].i)
                  /\ call'[t].i - call[t].i \in {0, 1}
            \* the statements that apply a coercion: the cast itself changes
            \* no handle slot; the allocation of that step is operator new's
            /\ (call[t].pc = "steal" /\ call'[t].pc = "null") =>
                  hnd' = hnd /\ live' = live
            /\ (call[t].pc = "alloc" /\ call'[t].pc = "alloc") =>
                  /\ hnd' = hnd
                  /\ \A q \in live : box'[q] = box[q]

\* the boxes a returned allocation made: one per element, all distinct, all live
AllocatedExactly ==
    \A t \in Threads :
        Returned(t, "alloc") =>
            /\ Len(touched[t]) = call[t].length
            /\ Cardinality(Range(touched[t])) = call[t].length
            /\ Range(touched[t]) \subseteq live
            /\ \A k \in 1 .. call[t].length :
                  call[t].result[k] = HandleOf(touched[t][k])

\* C12: allocation accounting: no step of the two bulk functions frees a
\* Boxed Value; a reclamation leaves the set of live allocations as it is; a
\* returned allocation of length N has added exactly N allocations; the
\* statements applying the coercions change no handle slot and no payload of
\* an existing box.
AllocationAccounting == []AllocatedExactly /\ [][AccountingStep]_vars

\* a full allocation has returned next to a returned reclamation whose boxes
\* are all still allocated
AllocationAccountingWitness ==
    \E t, u \in Threads :
        /\ ~misuse
        /\ Returned(t, "alloc") /\ call[t].length = MaxLen
        /\ Returned(u, "steal") /\ call[u].length >= 1
        /\ Range(touched[u]) \subseteq live
        /\ Cardinality(live) = MaxLen + call[u].length

(* -------------------------------- C13 ---------------------------------- *)

\* the Boxed Value at p is Bound: it is allocated and a handle slot of the
\* caller or of an allocation's result aliases it
Bound(p) ==
    /\ p \in live
    /\ \E x \in HandlePlaces : HandleAt(x) = HandleOf(p)

\* allocated, and no handle aliases it any more
Consumed(p) == p \in live /\ ~Bound(p)

\* the addresses of the Bound Boxed Values
BoundSet ==
    {p \in live :
        \/ \E a \in Arrays : \E k \in 1 .. Len(hnd[a]) : Bits(hnd[a][k]) = p
        \/ \E t \in Threads :
              /\ call[t].op = "alloc"
              /\ call[t].pc \in {"alloc", "returned"}
              /\ \E k \in 1 .. call[t].i : Bits(call[t].result[k]) = p}

OneWayStep ==
    LET before == BoundSet
        after == BoundSet'
    IN  \* Bound is entered only by the allocation of the box: the address
        \* was not in use before the step, and the step is an iteration of
        \* unsafe_alloc_new_handles_from_tensors that returns this address
        /\ \A p \in after \ before :
              /\ p \notin live
              /\ \E t \in Threads :
                    /\ call[t].pc = "alloc" /\ call'[t].pc = "alloc"
                    /\ call'[t].i = call[t].i + 1
                    /\ call'[t].result[call'[t].i] = HandleOf(p)
        \* a box that left Bound without being freed stays as it is for good
        /\ (live \ before) \subseteq (live' \ after)
        \* Bound is left by the nulling of the slot, by deallocation, or by
        \* the unwinding of a failed allocation
        /\ \A p \in before \ after :
              \/ p \notin live'
              \/ \E t \in Threads :
                    \/ call[t].pc = "null" /\ call'[t].pc = "steal"
                    \/ call[t].pc = "alloc" /\ call'[t].pc = "failed"

\* C13: the lifecycle of a handle is one-way: a Boxed Value becomes Bound only
\* in the allocation step that creates it; once it has left Bound it is never
\* Bound again, and a handle that is Bound later comes from a new allocation.
OneWayLifecycle == [][OneWayStep]_vars

\* one box was reclaimed, one was freed, and a later allocation has bound a
\* handle of its own
OneWayLifecycleWitness ==
    \E p, q \in Addr, a \in Arrays :
        /\ ~misuse
        /\ AllIdle
        /\ Consumed(p) /\ box[p] = MovedFrom
        /\ Bound(q)
        /\ Len(hnd[a]) = MaxLen
        /\ \E k \in 1 .. MaxLen : hnd[a][k] = NullHandle /\ hnd[a][k] # HandleOf(q)
        /\ Cardinality(live) < MaxLen + 1
        /\ \E b \in Arrays \ {a} : Len(hnd[b]) >= 1

(* -------------------------------- C14 ---------------------------------- *)

\* the state of a reclamation on valid input, by the number of elements it
\* has completed and by whether it stands between the two statements of the
\* next one
OrderedSoFar(t) ==
    LET c == call[t]
        a == c.arr
        j == c.i
        moved == IF c.pc = "null" THEN j + 1 ELSE j
    IN  /\ Len(c.result) = moved
        /\ \A k \in 1 .. moved : c.result[k] = argp[t][k]
        \* completed positions: slot null, box emptied
        /\ \A k \in 1 .. j :
              /\ hnd[a][k] = NullHandle
              /\ box[Bits(argv[t][k])] = MovedFrom
        \* between the move and the store: payload taken, slot not yet null
        /\ c.pc = "null" =>
              /\ hnd[a][j + 1] = argv[t][j + 1]
              /\ hnd[a][j + 1] # NullHandle
              /\ box[Bits(hnd[a][j + 1])] = MovedFrom
        \* positions not begun: original handle, payload still in its box
        /\ \A k \in moved + 1 .. c.length :
              /\ hnd[a][k] = argv[t][k]
              /\ hnd[a][k] # NullHandle
              /\ box[Bits(hnd[a][k])] = argp[t][k]
              /\ argp[t][k] # MovedFrom

\* the positions are taken one by one upwards, the move before the store
OrderedStep ==
    \A t \in Threads :
        (CallStep(t) /\ call[t].op = "steal" /\ ~misuse') =>
            /\ call[t].pc = "steal" =>
                  /\ call'[t].i = call[t].i
                  /\ call'[t].pc = "null" =>
                        /\ Len(call'[t].result) = Len(call[t].result) + 1
                        /\ hnd' = hnd
            /\ call[t].pc = "null" =>
                  /\ call'[t].pc = "steal"
                  /\ call'[t].i = call[t].i + 1
                  /\ call'[t].result = call[t].result
                  /\ box' = box

\* C14: step ordering inside alloc_tensors_by_stealing_from_handles on valid
\* input: positions are processed upwards from the first; at each one the
\* payload is moved into the output and then the slot is set to null; after j
\* elements the output is the payloads of the first j positions in order, the
\* first j slots are null, and the other slots hold their original non-null
\* handles with the payloads still in the boxes.
StepOrdering ==
    /\ [](~misuse =>
             \A t \in Threads :
                 (call[t].op = "steal" /\ call[t].pc \in {"steal", "null", "returned"})
                     => OrderedSoFar(t))
    /\ [][OrderedStep]_vars

\* a reclamation of a full array has completed all elements but the last and
\* stands between the move and the store of the last one
StepOrderingWitness ==
    \E t \in Threads :
        /\ ~misuse
        /\ call[t].op = "steal" /\ call[t].pc = "null"
        /\ call[t].length = MaxLen /\ call[t].i = MaxLen - 1
        /\ hnd[call[t].arr][1] = NullHandle
        /\ hnd[call[t].arr][MaxLen] # NullHandle

(* -------------------------------- C15 ---------------------------------- *)

\* the call of thread t is over
Over(t) == call[t].pc \in {"returned", "failed"}

\* how the calls end: a returned call ran its loop `length` times; a failed
\* allocation stopped for want of memory at some iteration or before the
\* first; a failed reclamation stopped in reserve, before the first iteration
EndsAfterLoop ==
    \A t \in Threads :
        /\ call[t].pc = "returned" =>
              /\ call[t].i = call[t].length
              /\ Len(call[t].result) = call[t].length
              /\ ~ub[t] => Len(touched[t]) = call[t].length
        /\ (call[t].pc = "failed" /\ call[t].op = "alloc") =>
              /\ call[t].i < call[t].length
              /\ Len(touched[t]) = call[t].i
        /\ (call[t].pc = "failed" /\ call[t].op = "steal") =>
              /\ call[t].i = 0
              /\ call[t].length > 0
              /\ touched[t] = <<>>

\* a running call can always take its next step, whatever the other calls do
NeverBlocked ==
    \A t \in Threads : InFlight(t) => ENABLED CallAction(t)

\* as stated: a reclamation on valid input always comes to return
ReclamationAlwaysReturns ==
    \A t \in Threads :
        (call[t].op = "steal" /\ call[t].pc # "idle" /\ ~misuse)
            ~> (call[t].pc = "returned" \/ call[t].pc = "idle" \/ misuse)

\* C15 (amended): termination: every call of
\* unsafe_alloc_new_handles_from_tensors comes to return after `length`
\* iterations or to fail for want of memory; every call of
\* alloc_tensors_by_stealing_from_handles on valid input comes to return after
\* `length` iterations, or fails for want of memory in reserve before its
\* first iteration; no running call is ever blocked by another.
Termination ==
    /\ []EndsAfterLoop
    /\ []NeverBlocked
    /\ \A t \in Threads :
          (call[t].op = "alloc" /\ call[t].pc # "idle") ~> Over(t)
    /\ \A t \in Threads :
          (call[t].op = "steal" /\ call[t].pc # "idle" /\ ~misuse)
              ~> (Over(t) \/ misuse)

\* one call has returned from a full array while the other, begun meanwhile,
\* has failed in the middle of its loop
TerminationWitness ==
    \E t, u \in Threads :
        /\ ~misuse
        /\ Returned(t, "steal") /\ call[t].length = MaxLen
        /\ call[u].pc = "failed" /\ call[u].op = "alloc"
        /\ call[u].i >= 1

(* -------------------------------- C16 ---------------------------------- *)

\* what a step of a reclamation on valid input may change
ReclaimFrame(t) ==
    LET a == call'[t].arr
        n == call'[t].length
        mine == {Bits(argv'[t][k]) : k \in 1 .. n}
    IN  /\ tens' = tens
        /\ live' = live
        /\ \A b \in Arrays \ {a} : hnd'[b] = hnd[b]
        /\ Len(hnd'[a]) = Len(hnd[a])
        /\ \A k \in n + 1 .. Len(hnd[a]) : hnd'[a][k] = hnd[a][k]
        /\ \A k \in 1 .. n : hnd'[a][k] \in {hnd[a][k], NullHandle}
        /\ \A p \in Addr \ mine : box'[p] = box[p]

\* what a step of an allocation may change
AllocFrame(t) ==
    LET a == call'[t].arr
        n == call'[t].length
    IN  /\ hnd' = hnd
        /\ live \subseteq live'
        /\ \A p \in live : box'[p] = box[p]
        /\ \A b \in Arrays \ {a} : tens'[b] = tens[b]
        /\ Len(tens'[a]) = Len(tens[a])
        /\ \A k \in n + 1 .. Len(tens[a]) : tens'[a][k] = tens[a][k]
        /\ \A k \in 1 .. n : tens'[a][k] \in {tens[a][k], MovedFrom}

\* C16: frame of the bulk operations: a step of
\* alloc_tensors_by_stealing_from_handles(handles, N) on valid input changes
\* nothing but the first N slots of `handles` and the payloads of the boxes
\* those slots aliased; a step of unsafe_alloc_new_handles_from_tensors(tensors,
\* N) changes nothing but the first N slots of `tensors`, and leaves every
\* handle slot and every existing Boxed Value as it is.
BulkFrame ==
    [][\A t \in Threads :
          (CallStep(t) /\ ~misuse') =>
              /\ call'[t].op = "steal" => ReclaimFrame(t)
              /\ call'[t].op = "alloc" => AllocFrame(t)]_vars

\* a reclamation and an allocation of part of their arrays have returned: the
\* slots past the part are as they were
BulkFrameWitness ==
    \E t, u \in Threads :
        /\ ~misuse
        /\ Returned(t, "steal")
        /\ call[t].length >= 1 /\ call[t].length < Len(hnd[call[t].arr])
        /\ hnd[call[t].arr][call[t].length] = NullHandle
        /\ hnd[call[t].arr][call[t].length + 1] # NullHandle
        /\ box[Bits(hnd[call[t].arr][call[t].length + 1])] # MovedFrom
        /\ Returned(u, "alloc")
        /\ call[u].length >= 1 /\ call[u].length < Len(tens[call[u].arr])
        /\ tens[call[u].arr][call[u].length] = MovedFrom
        /\ tens[call[u].arr][call[u].length + 1] # MovedFrom

(* -------------------------------- C17 ---------------------------------- *)

\* the input array of a failed allocation that had completed k positions
InputAfterFailure(t) ==
    LET c == call[t]
        a == c.arr
        k == c.i
    IN  /\ k < c.length
        /\ Len(touched[t]) = k
        \* positions before k: moved from, the payload in the box made for it
        /\ \A j \in 1 .. k :
              /\ tens[a][j] = MovedFrom
              /\ touched[t][j] \in live
              /\ box[touched[t][j]] = argv[t][j]
              /\ HeldBy(touched[t][j]) = {}
        \* position k and those after it: the value passed in
        /\ \A j \in k + 1 .. c.length :
              /\ tens[a][j] = argv[t][j]
              /\ tens[a][j] # MovedFrom
        \* failure before the loop: nothing moved
        /\ k = 0 => SubSeq(tens[a], 1, c.length) = argv[t]

\* C17: input state on partial allocation failure: when
\* unsafe_alloc_new_handles_from_tensors fails allocating the box for position
\* k, input slots k..N-1 hold their original values, slots 0..k-1 are
\* moved-from with their payloads in the leaked boxes; a failure before the
\* loop leaves every input slot as it was.
InputOnFailure ==
    \A t \in Threads :
        (call[t].pc = "failed" /\ call[t].op = "alloc") => InputAfterFailure(t)

\* one allocation failed in the middle of a full array, another one before its
\* first position
InputOnFailureWitness ==
    \E t, u \in Threads :
        /\ call[t].pc = "failed" /\ call[t].op = "alloc"
        /\ call[t].length = MaxLen
        /\ call[t].i >= 1
        /\ call[u].pc = "failed" /\ call[u].op = "alloc"
        /\ call[u].length >= 1
        /\ call[u].i = 0

====
